---- MODULE Spec2Model ----
(***************************************************************************)
(* Library synchronisation of the editor (MonacoEffects, monaco.ts).       *)
(*                                                                         *)
(* Strings are sequences of tokens: a token stands for a run of characters *)
(* that the regular expressions of _parse never split ("@types", "dt~",    *)
(* ".d.ts", ...).  null is the reserved value NULL.                        *)
(*                                                                         *)
(* Collaborators that the file only calls are modelled by their contract:  *)
(*   Dictionary.add (office-js-helpers) throws when the key exists;        *)
(*   addExtraLib (monaco) keeps one content per file path and per language *)
(*   defaults object, throws when the path is already registered there,    *)
(*   and its disposable deletes that path from that object;                *)
(*   Request.get settles once, with the content or with an error.          *)
(***************************************************************************)
EXTENDS Integers, Sequences, FiniteSets, Bags, TLC

\* ------------------------------------------------------------------ bounds
\* reconcile calls (UPDATE_INTELLISENSE actions) in one behaviour
MaxCalls == 3
\* length of the libraries list of one call
MaxLibs == 1
\* add operations in flight at once
MaxInFlight == 3
\* tokens in a library reference given to _parse on its own
MaxRefLen == 4
\* snippets there are to store
MaxSnippets == 3

\* ----------------------------------------------------------------- strings
NULL == <<"<null>">>

IsBlank(c) == c = " "

RECURSIVE TrimLeft(_)
TrimLeft(s) ==
    IF s # <<>> /\ IsBlank(Head(s)) THEN TrimLeft(Tail(s)) ELSE s

RECURSIVE TrimRight(_)
TrimRight(s) ==
    IF s # <<>> /\ IsBlank(s[Len(s)]) THEN TrimRight(SubSeq(s, 1, Len(s) - 1)) ELSE s

\* String.prototype.trim
Trim(s) == TrimRight(TrimLeft(s))

\* the i flag of a regular expression
Lower(c) ==
    CASE c = ".D.TS" -> ".d.ts"
      [] c = "HTTPS:" -> "https:"
      [] c = "HTTP:" -> "http:"
      [] c = "OFFICE" -> "office"
      [] OTHER -> c

\* a comparison of the whole string
EqualsWhole(s, p) == s = p

StartsWith(s, p) == Len(s) >= Len(p) /\ SubSeq(s, 1, Len(p)) = p

\* library.split('dt~')[1]: what lies between the first and the second "dt~"
RECURSIVE UpTo(_, _)
UpTo(s, sep) ==
    IF s = <<>> \/ Head(s) = sep THEN <<>> ELSE <<Head(s)>> \o UpTo(Tail(s), sep)

\* location.origin
Origin == <<"https:", "//script-lab.test">>

AuthHelpersUrl == Origin \o <<"/libs/", "auth-helpers", ".d.ts">>

CustomFunctionsUrl == Origin \o <<"/libs/", "custom-functions", ".d.ts">>

\* getVersionedPackageUrl(location.origin, '@microsoft/office-js', 'office.d.ts')
OfficeJsUrl == Origin \o <<"/libs/", "@microsoft/office-js@v", "/", "office", ".d.ts">>

\* --------------------------------------------------------------- _parse
\* the callback of libraries.map in _parse, for one library
ParseLibrary(lib, tabName) ==
    LET library == Trim(lib)
        n == Len(library)
    IN  IF n >= 1 /\ library[1] = "@types"
        THEN IF tabName = "customFunctions" /\ StartsWith(library, <<"@types", "/", "office-js">>)
             THEN NULL
             ELSE <<"https:", "//unpkg.com/">> \o library \o <<"/", "index", ".d.ts">>
        ELSE IF n >= 1 /\ library[1] = "dt~"
        THEN LET libName == UpTo(Tail(library), "dt~")
             IN  IF tabName = "customFunctions" /\ library = <<"office-js">>
                 THEN NULL
                 ELSE <<"https:", "//raw.githubusercontent.com/DefinitelyTyped/DefinitelyTyped/master/types/">>
                          \o libName \o <<"/", "index", ".d.ts">>
        ELSE IF n >= 1 /\ Lower(library[n]) = ".d.ts"
        THEN IF tabName = "customFunctions" /\ n >= 2 /\ Lower(library[n - 1]) = "office"
             THEN NULL
             ELSE IF Lower(library[1]) \in {"http:", "https:"}
                  THEN library
                  ELSE <<"https:", "//unpkg.com/">> \o library
        ELSE NULL

_parse(libraries, tabName) ==
    [i \in 1..Len(libraries) |-> ParseLibrary(libraries[i], tabName)]

\* ---------------------------------------------------------------- state
VARIABLES
    _current,      \* Dictionary<IDisposableFile>: url -> [url, disposable]
    extraLibs,     \* per language defaults object, the file paths registered
    cache,         \* storage.intellisenseCache: the urls it contains
    ops,           \* bag of add operations in flight
    monacoReady,   \* MonacoService.current has resolved
    updateAlive,   \* updateIntellisense$ has not been ended by its catch
    calls,         \* UPDATE_INTELLISENSE actions dispatched so far
    pass,          \* what the latest processed call asked for and did
    failed,        \* urls whose request has failed at least once
    last,          \* the step just taken and the action it emitted
    cacheContent,  \* storage.intellisenseCache: per url, the response stored
                   \* (named by the call whose request delivered it)
    resolved,      \* one application of the _parse callback: input and result
    _snippetsContainer, \* SnippetManager: the ids of the snippets in local storage
    dialog,        \* the confirmation dialog that is open, and what it is about
    done           \* the SnippetManager call that settled last, and how

snippetVars == <<_snippetsContainer, dialog, done>>

vars == <<_current, extraLibs, cache, ops, monacoReady, updateAlive, calls, pass, failed, last,
          cacheContent, resolved, snippetVars>>

Languages == {"javascript", "typescript"}

TabNames == {"script", "customFunctions", "runner"}

\* the library references a snippet may list
Libraries ==
    { <<"@types", "/", "jquery">>,
      AuthHelpersUrl,
      <<"jquery">> }

RECURSIVE SeqsUpTo(_, _)
SeqsUpTo(S, n) ==
    IF n = 0 THEN {<<>>}
    ELSE LET shorter == SeqsUpTo(S, n - 1)
         IN  shorter \cup {Append(s, x) : s \in shorter, x \in S}

Range(s) == {s[i] : i \in 1..Len(s)}

\* a filter that keeps every url
KeepUrls(urls) == urls

\* Array.prototype.filter(url => url && url.trim() !== '')
RECURSIVE FilterUrls(_)
FilterUrls(urls) ==
    IF urls = <<>> THEN <<>>
    ELSE IF Head(urls) # NULL /\ Head(urls) # <<>> /\ Trim(Head(urls)) # <<>>
         THEN <<Head(urls)>> \o FilterUrls(Tail(urls))
         ELSE FilterUrls(Tail(urls))

\* additionalLibraries of the tab
AdditionalLibraries(tabName) ==
    IF tabName = "script" THEN <<AuthHelpersUrl>>
    ELSE IF tabName = "customFunctions" THEN <<CustomFunctionsUrl, OfficeJsUrl>>
    ELSE <<>>

\* the additional libraries resolved by _parse like the libraries of the snippet
ParsedWithAdditional(libraries, tabName) ==
    FilterUrls(_parse(libraries \o AdditionalLibraries(tabName), tabName))

UrlsToInclude(libraries, tabName) ==
    FilterUrls(_parse(libraries, tabName) \o AdditionalLibraries(tabName))

_determineSource(language) ==
    IF language = "javascript" THEN "javascriptDefaults" ELSE "typescriptDefaults"

Targets == {"javascriptDefaults", "typescriptDefaults"}

\* add operations that have asked for their file already when they are issued
AddActionsRequesting(files, language, call) ==
    [o \in {[url |-> u, language |-> language, call |-> call, pc |-> "request"] : u \in Range(files)}
        |-> Cardinality({i \in 1..Len(files) : files[i] = o.url})]

\* one add operation per file, as dispatched by the mergeMap of updateIntellisense$
RECURSIVE AddActions(_, _, _)
AddActions(files, language, call) ==
    IF files = <<>> THEN EmptyBag
    ELSE SetToBag({[url |-> Head(files), language |-> language, call |-> call, pc |-> "monaco"]})
             (+) AddActions(Tail(files), language, call)

\* the files the map callback of updateIntellisense$ returns (line 72)
FilesToAdd(urlsToInclude) == urlsToInclude

\* a filter that lets every file through: all of _current is disposed
EveryFile(urlsToInclude) == DOMAIN _current

\* filesThatCanBeDisposed.filter(file => urlsToInclude.indexOf(file.url) < 0)
Unused(urlsToInclude) ==
    {u \in DOMAIN _current : _current[u].url \notin Range(urlsToInclude)}

\* disposable.dispose() of the registrations of the keys in S
DisposeAll(S) ==
    [t \in Targets |-> extraLibs[t] \ {u \in S : _current[u].disposable.target = t}]

\* _get with its cache test always false: every add operation requests its file
CacheNeverContains(url) == FALSE

\* _get with its cache test always true: no add operation requests its file
CacheAlwaysContains(url) == TRUE

\* storage.intellisenseCache.contains(url)
CacheContains(url) == url \in cache

\* the action addIntellisense$ emits for the value _addIntellisense gave it:
\* .map(() => new Monaco.UpdateIntellisenseSuccessAction())
EmittedAction(inner) == "UpdateIntellisenseSuccess"

\* no add operation
NoOp == [url |-> NULL, language |-> "none", call |-> 0, pc |-> "none"]

Step(kind, op, fetchFailed, registerFailed, event) ==
    [kind |-> kind, op |-> op, fetchFailed |-> fetchFailed,
     registerFailed |-> registerFailed, event |-> event, tabName |-> "none"]

\* no application of the _parse callback
NotResolved == [library |-> <<>>, tabName |-> "none", done |-> FALSE, url |-> NULL, urls |-> <<>>]

\* the effects after construction
Constructed ==
    /\ _current = [u \in {} |-> NULL]
    /\ extraLibs = [t \in Targets |-> {}]
    /\ cache = {}
    /\ ops = EmptyBag
    /\ monacoReady = FALSE
    /\ updateAlive = TRUE
    /\ calls = 0
    /\ pass = [desired |-> {}, language |-> "none", idem |-> FALSE, disj |-> FALSE,
               nprev |-> 0, disposes |-> 0, registers |-> 0, fetches |-> 0,
               tabName |-> "none", sameTab |-> TRUE]
    /\ failed = {}
    /\ last = Step("init", NoOp, FALSE, FALSE, "none")
    /\ cacheContent = [u \in {} |-> 0]

\* no dialog is open
NoDialog == [op |-> "none", id |-> 0]

\* a settled SnippetManager call: its promise resolved, or rejected with error
Settlement(op, id, choice, error) == [op |-> op, id |-> id, choice |-> choice, error |-> error]

\* a SnippetManager with nothing stored and nothing asked of it
NoSnippets ==
    /\ _snippetsContainer = {}
    /\ dialog = NoDialog
    /\ done = Settlement("none", 0, "none", "none")

Init ==
    /\ Constructed
    /\ resolved = NotResolved
    /\ NoSnippets

\* promise callbacks run before the next event: while an add operation whose
\* MonacoService.current has resolved still waits, no other event is handled
Draining == monacoReady /\ \E o \in BagToSet(ops) : o.pc = "monaco"

\* UPDATE_INTELLISENSE({libraries, language, tabName}) through updateIntellisense$
updateIntellisense(libraries, language, tabName) ==
    /\ calls < MaxCalls
    /\ BagCardinality(ops) + Len(UrlsToInclude(libraries, tabName)) <= MaxInFlight
    /\ ~Draining
    /\ calls' = calls + 1
    /\ UNCHANGED <<cache, cacheContent, monacoReady, failed, resolved, snippetVars>>
    /\ IF ~updateAlive
       THEN \* the stream ended in its catch: the action reaches no handler
            /\ last' = [Step("ignored", NoOp, FALSE, FALSE, "none") EXCEPT !.tabName = tabName]
            /\ UNCHANGED <<_current, extraLibs, ops, updateAlive, pass>>
       ELSE IF tabName \notin {"script", "customFunctions"}
       THEN \* throw new Error('Invalid tab name'), caught at line 75
            /\ updateAlive' = FALSE
            /\ last' = [Step("rejected", NoOp, FALSE, FALSE, "ReportError") EXCEPT !.tabName = tabName]
            /\ UNCHANGED <<_current, extraLibs, ops, pass>>
       ELSE LET urlsToInclude == UrlsToInclude(libraries, tabName)
                desired == Range(urlsToInclude)
                unused == Unused(urlsToInclude)
                settled == /\ pass.language # "none"
                           /\ ops = EmptyBag
                           /\ DOMAIN _current = pass.desired
            IN  /\ extraLibs' = DisposeAll(unused)
                /\ _current' = [u \in DOMAIN _current \ unused |-> _current[u]]
                /\ ops' = ops (+) AddActions(FilesToAdd(urlsToInclude), language, calls + 1)
                /\ pass' = [desired |-> desired,
                            language |-> language,
                            idem |-> settled /\ desired = pass.desired /\ language = pass.language,
                            disj |-> settled /\ desired \cap pass.desired = {},
                            nprev |-> Cardinality(pass.desired),
                            disposes |-> Cardinality(unused),
                            registers |-> 0,
                            fetches |-> 0,
                            tabName |-> tabName,
                            sameTab |-> pass.sameTab /\ pass.tabName \in {"none", tabName}]
                /\ last' = [Step("update", NoOp, FALSE, FALSE, "AddIntellisense")
                               EXCEPT !.tabName = tabName]
                /\ UNCHANGED updateAlive

\* MonacoService.current resolves
MonacoLoaded ==
    /\ ~monacoReady
    /\ monacoReady' = TRUE
    /\ last' = Step("loaded", NoOp, FALSE, FALSE, "none")
    /\ UNCHANGED <<_current, extraLibs, cache, cacheContent, ops, updateAlive, calls, pass, failed,
                   resolved, snippetVars>>

\* the .map callback of _addIntellisense (lines 91-96) for the file of o, the
\* .catch behind it, and the action addIntellisense$ emits for the outcome
Register(o, kind) ==
    LET t == _determineSource(o.language)
        libThrows == o.url \in extraLibs[t]
        addThrows == ~libThrows /\ o.url \in DOMAIN _current
        threw == libThrows \/ addThrows
    IN  /\ extraLibs' = IF libThrows THEN extraLibs
                        ELSE [extraLibs EXCEPT ![t] = @ \cup {o.url}]
        /\ _current' = IF threw THEN _current
                       ELSE [u \in DOMAIN _current \cup {o.url} |->
                               IF u = o.url
                               THEN [url |-> o.url, disposable |-> [target |-> t, url |-> o.url]]
                               ELSE _current[u]]
        /\ pass' = [pass EXCEPT !.registers = @ + 1]
        /\ last' = Step(kind, o, FALSE, threw,
                        EmittedAction(IF threw THEN "ReportError" ELSE "intellisense"))

\* the failure ends addIntellisense$ as a whole: no add operation is left
AllAbortedByRequestError(o) == EmptyBag

\* what a failed request leaves of the add operations in flight
AfterRequestError(o) == ops (-) SetToBag({o})

\* MonacoService.current has resolved for o: _get(o.url)
AddIntellisenseGet(o) ==
    /\ monacoReady
    /\ BagIn(o, ops)
    /\ o.pc = "monaco"
    /\ UNCHANGED <<monacoReady, updateAlive, calls, failed, cache, cacheContent, resolved, snippetVars>>
    /\ IF CacheContains(o.url)
       THEN /\ ops' = ops (-) SetToBag({o})
            /\ Register(o, "cached")
       ELSE /\ ops' = (ops (-) SetToBag({o})) (+) SetToBag({[o EXCEPT !.pc = "request"]})
            /\ pass' = [pass EXCEPT !.fetches = @ + 1]
            /\ last' = Step("request", o, FALSE, FALSE, "none")
            /\ UNCHANGED <<_current, extraLibs>>

\* the request of o answers: intellisenseCache.insert, then the .map callback
RequestSucceeds(o) ==
    /\ ~Draining
    /\ BagIn(o, ops)
    /\ o.pc = "request"
    /\ cache' = cache \cup {o.url}
    /\ cacheContent' = [u \in cache \cup {o.url} |-> IF u = o.url THEN o.call ELSE cacheContent[u]]
    /\ ops' = ops (-) SetToBag({o})
    /\ Register(o, "fetched")
    /\ UNCHANGED <<monacoReady, updateAlive, calls, failed, resolved, snippetVars>>

\* the request of o fails: the .catch of _addIntellisense
RequestFails(o) ==
    /\ ~Draining
    /\ BagIn(o, ops)
    /\ o.pc = "request"
    /\ ops' = AfterRequestError(o)
    /\ failed' = failed \cup {o.url}
    /\ last' = Step("fetchError", o, TRUE, FALSE, EmittedAction("ReportError"))
    /\ UNCHANGED <<_current, extraLibs, cache, cacheContent, monacoReady, updateAlive, calls, pass,
                   resolved, snippetVars>>

Next ==
    \/ \E libraries \in SeqsUpTo(Libraries, MaxLibs), language \in Languages, tabName \in TabNames :
           updateIntellisense(libraries, language, tabName)
    \/ MonacoLoaded
    \/ \E o \in BagToSet(ops) : AddIntellisenseGet(o)
    \/ \E o \in BagToSet(ops) : RequestSucceeds(o)
    \/ \E o \in BagToSet(ops) : RequestFails(o)

Spec == Init /\ [][Next]_vars

\* ------------------------------------------------- _parse on its own
\* tokens of the library references tried
Tokens ==
    {"@types", "/", "dt~", "office-js", "-preview", "@1", "office", "back", ".d.ts", ".D.TS",
     "https:", " "}

ParseTabNames == {"script", "customFunctions"}

InitParse ==
    /\ Constructed
    /\ \E library \in SeqsUpTo(Tokens, MaxRefLen), tabName \in ParseTabNames :
           resolved = [NotResolved EXCEPT !.library = library, !.tabName = tabName]
    /\ NoSnippets

\* this._parse([library], tabName), and what updateIntellisense$ keeps of it
Resolve ==
    /\ ~resolved.done
    /\ resolved' = [resolved EXCEPT
                       !.done = TRUE,
                       !.url = _parse(<<resolved.library>>, resolved.tabName)[1],
                       !.urls = UrlsToInclude(<<resolved.library>>, resolved.tabName)]
    /\ UNCHANGED <<_current, extraLibs, cache, ops, monacoReady, updateAlive, calls, pass, failed,
                   last, cacheContent, snippetVars>>

NextParse == Resolve

SpecParse == InitParse /\ [][NextParse]_vars

\* ------------------------------------------------- SnippetManager
\* snippet.meta.id of the snippets; 0 stands for a null snippet
SnippetIds == 1..MaxSnippets

\* Utilities.isNull(snippet) || Utilities.isNull(snippet.meta)
IsNullSnippet(snippet) == snippet = 0

\* the value of the expression (choice = 'Yes'): an assignment, whose value is
\* the string assigned
ChoiceAssigned(choice) == "Yes"

\* the test of if (choice = 'Yes'): a non-empty string is truthy
Confirmed(choice) == ChoiceAssigned(choice) # ""

\* the MonacoEffects and _parse are left alone by the SnippetManager
EffectsUnchanged ==
    UNCHANGED <<_current, extraLibs, cache, ops, monacoReady, updateAlive, calls, pass, failed,
                last, cacheContent, resolved>>

\* the snippets found in local storage when the SnippetManager is constructed
InitSnippets ==
    /\ Constructed
    /\ resolved = NotResolved
    /\ _snippetsContainer \in SUBSET SnippetIds
    /\ dialog = NoDialog
    /\ done = Settlement("none", 0, "none", "none")

\* save(snippet) of a snippet that has metadata and a name
save(snippet) ==
    /\ _snippetsContainer' = _snippetsContainer \cup {snippet}
    /\ done' = Settlement("save", snippet, "none", "none")
    /\ UNCHANGED dialog
    /\ EffectsUnchanged

\* delete(snippet, askForConfirmation) up to its first return
delete(snippet, askForConfirmation) ==
    /\ dialog = NoDialog
    /\ IF IsNullSnippet(snippet)
       THEN /\ done' = Settlement("delete", snippet, "none", "Error")
            /\ UNCHANGED <<_snippetsContainer, dialog>>
       ELSE IF askForConfirmation
       THEN /\ dialog' = [op |-> "delete", id |-> snippet]
            /\ UNCHANGED <<_snippetsContainer, done>>
       ELSE /\ _snippetsContainer' = _snippetsContainer \ {snippet}
            /\ done' = Settlement("delete", snippet, "none", "none")
            /\ UNCHANGED dialog
    /\ EffectsUnchanged

\* deleteAll(askForConfirmation) up to its first return
deleteAll(askForConfirmation) ==
    /\ dialog = NoDialog
    /\ IF askForConfirmation
       THEN /\ dialog' = [op |-> "deleteAll", id |-> 0]
            /\ UNCHANGED <<_snippetsContainer, done>>
       ELSE /\ _snippetsContainer' = {}
            /\ done' = Settlement("deleteAll", 0, "none", "none")
            /\ UNCHANGED dialog
    /\ EffectsUnchanged

\* the dialog is answered: the .then callback of delete or deleteAll
DialogAnswered(choice) ==
    /\ dialog # NoDialog
    /\ dialog' = NoDialog
    /\ IF Confirmed(choice)
       THEN /\ _snippetsContainer' = IF dialog.op = "delete"
                                     THEN _snippetsContainer \ {dialog.id}
                                     ELSE {}
            /\ done' = Settlement(dialog.op, dialog.id, choice, "none")
       ELSE /\ done' = Settlement(dialog.op, dialog.id, choice, "ExpectedError")
            /\ UNCHANGED _snippetsContainer
    /\ EffectsUnchanged

NextSnippets ==
    \/ \E snippet \in SnippetIds : save(snippet)
    \/ \E snippet \in _snippetsContainer \cup {0}, askForConfirmation \in BOOLEAN :
           delete(snippet, askForConfirmation)
    \/ \E askForConfirmation \in BOOLEAN : deleteAll(askForConfirmation)
    \/ \E choice \in {"Yes", "No"} : DialogAnswered(choice)

SpecSnippets == InitSnippets /\ [][NextSnippets]_vars

\* ------------------------------------------------------------------ claims
Locators == cache \cup DOMAIN _current \cup UNION {extraLibs[t] : t \in Targets}

Settled(kind) == kind \in {"fetched", "cached", "fetchError"}

\* C1: once every add operation has settled and no request has failed, the
\* keys of _current are the desired locators of the most recent call.
C1_ConvergesToLatestDesired ==
    (pass.language # "none" /\ updateAlive /\ ops = EmptyBag /\ failed = {})
        => DOMAIN _current = pass.desired

\* C2: every locator has at most one live registration with the analysis
\* engine (an addExtraLib whose disposable has not been disposed).
C2_OneLiveRegistrationPerLocator ==
    \A u \in Locators : Cardinality({t \in Targets : u \in extraLibs[t]}) <= 1

\* C3: a call that repeats the desired set of a settled, fully registered
\* pass performs no fetch, no dispose and no register call, and issues no add
\* operation.
C3_Idempotent ==
    pass.idem =>
        /\ pass.fetches = 0
        /\ pass.disposes = 0
        /\ pass.registers = 0
        /\ ops = EmptyBag

\* C4: two calls that ask for the same new locator, the second before the
\* request of the first has settled, cause one request for it: there are never
\* two requests in flight for one locator on behalf of two calls.
C4_OneFetchForConcurrentCalls ==
    \A o1, o2 \in BagToSet(ops) :
        (o1.pc = "request" /\ o2.pc = "request" /\ o1.url = o2.url) => o1.call = o2.call

\* C5: an add operation of an earlier call that settles when the latest call
\* no longer desires its locator leaves no entry in _current and no live
\* registration of that locator.
C5_StaleAdditionDisposed ==
    (last.kind \in {"fetched", "cached"} /\ last.op.url \notin pass.desired)
        => /\ last.op.url \notin DOMAIN _current
           /\ \A t \in Targets : last.op.url \notin extraLibs[t]

\* C6: a call whose desired set D2 is disjoint from the settled, fully
\* registered set D1 of the pass before it performs |D1| dispose calls and,
\* once its add operations have settled without a failed request, has made
\* |D2| register calls and left the keys of _current equal to D2.
C6_DisjointSwap ==
    pass.disj =>
        /\ pass.disposes = pass.nprev
        /\ (ops = EmptyBag /\ failed = {}) =>
               /\ pass.registers = Cardinality(pass.desired)
               /\ DOMAIN _current = pass.desired

\* C7: a failed request removes its own add operation and nothing else (the
\* registrations, the cache, the other add operations in flight and the
\* update stream are as before), and every add operation of the latest pass
\* whose request succeeds leaves its locator in _current.
C7_FailureIsolation ==
    [][ /\ last'.kind = "fetchError" =>
              /\ _current' = _current
              /\ extraLibs' = extraLibs
              /\ cache' = cache
              /\ updateAlive' = updateAlive
              /\ ops' = ops (-) SetToBag({last'.op})
        /\ (last'.kind = "fetched" /\ last'.op.call = calls) =>
              last'.op.url \in DOMAIN _current' ]_vars

\* C7 witness: in a single pass one request has failed and another locator of
\* the same batch has then been fetched and registered.
C7_Witness ==
    /\ calls = 1
    /\ last.kind = "fetched"
    /\ failed # {}
    /\ failed \subseteq pass.desired
    /\ last.op.url \notin failed
    /\ last.op.url \in DOMAIN _current

\* C8: no request is started for a locator the cache holds, the cache never
\* loses a locator, and an add operation that finds its locator in the cache
\* settles without a request.
C8_CacheReuse ==
    [][ /\ last'.kind = "request" => last'.op.url \notin cache
        /\ cache \subseteq cache'
        /\ last'.kind = "cached" =>
              /\ last'.op.url \in cache
              /\ pass'.fetches = pass.fetches ]_vars

\* C8 witness: a locator fetched earlier is registered anew from the cache
\* (it had left _current in between).
C8_Witness ==
    /\ last.kind = "cached"
    /\ ~last.registerFailed
    /\ last.op.url \in DOMAIN _current
    /\ calls >= 3

\* C9: a failed request stores no cache entry and creates no registration;
\* every processed call issues an add operation for each locator it desires,
\* and an add operation whose locator is not cached starts a request.
C9_FailedFetchRetried ==
    [][ /\ last'.kind = "fetchError" =>
              /\ cache' = cache
              /\ DOMAIN _current' = DOMAIN _current
              /\ extraLibs' = extraLibs
        /\ last'.kind = "update" =>
              \A u \in pass'.desired :
                  \E o \in BagToSet(ops') : o.url = u /\ o.call = calls' /\ o.pc = "monaco"
        /\ (last'.kind \in {"request", "cached"} /\ last'.op.url \notin cache) =>
              last'.kind = "request" ]_vars

\* C9 witness: a locator whose request failed has been requested again by a
\* later call and is registered.
C9_Witness ==
    /\ last.kind = "fetched"
    /\ last.op.url \in failed
    /\ last.op.call > 1
    /\ last.op.url \in DOMAIN _current

\* C10: an add operation emits a success action exactly when its fetch and
\* its register succeeded, and a failure action exactly when one of them failed.
C10_OutcomeEvents ==
    Settled(last.kind) =>
        /\ last.event = "UpdateIntellisenseSuccess" <=> ~(last.fetchFailed \/ last.registerFailed)
        /\ last.event = "ReportError" <=> (last.fetchFailed \/ last.registerFailed)

\* C11: a call whose tabName is neither 'script' nor 'customFunctions' does no
\* dispose, no fetch and no register, leaves _current and the cache as they
\* were, and emits an error action.
C11_InvalidTabRejected ==
    [][ (calls' = calls + 1 /\ last'.tabName \notin {"script", "customFunctions"}) =>
              /\ _current' = _current
              /\ extraLibs' = extraLibs
              /\ cache' = cache
              /\ cacheContent' = cacheContent
              /\ ops' = ops
              /\ pass' = pass
              /\ last'.event = "ReportError" ]_vars

\* the library of a resolved reference, as _parse sees it after trim
ResolvedLibrary == Trim(resolved.library)

DefinitelyTypedUrl(name) ==
    <<"https:", "//raw.githubusercontent.com/DefinitelyTyped/DefinitelyTyped/master/types/">>
        \o name \o <<"/", "index", ".d.ts">>

\* C12: a reference dt~<name> resolves to the DefinitelyTyped path of <name>,
\* except that on customFunctions dt~office-js resolves to null.
C12_RegistryShorthand ==
    (/\ resolved.done
     /\ Len(ResolvedLibrary) >= 2
     /\ Head(ResolvedLibrary) = "dt~"
     /\ "dt~" \notin Range(Tail(ResolvedLibrary)))
        => resolved.url =
               IF resolved.tabName = "customFunctions" /\ Tail(ResolvedLibrary) = <<"office-js">>
               THEN NULL
               ELSE DefinitelyTypedUrl(Tail(ResolvedLibrary))

UnpkgIndexUrl(library) == <<"https:", "//unpkg.com/">> \o library \o <<"/", "index", ".d.ts">>

\* the resolved reference has the form @types/<pkg>
IsScopedTypes ==
    /\ resolved.done
    /\ Len(ResolvedLibrary) >= 3
    /\ ResolvedLibrary[1] = "@types"
    /\ ResolvedLibrary[2] = "/"

\* the package of a reference @types/<pkg> is office-js: the name ends there,
\* or a version or a path inside the package follows
NamesOfficeJsTypes ==
    /\ ResolvedLibrary[3] = "office-js"
    /\ Len(ResolvedLibrary) >= 4 => ResolvedLibrary[4] \in {"@1", "/"}

\* C13 as stated: @types/<pkg> resolves to https://unpkg.com/<reference>/index.d.ts
\* on script; on customFunctions to null when the package is office-js and to
\* the same URL otherwise.
C13_ScopedTypesNamed ==
    IsScopedTypes =>
        resolved.url =
            IF resolved.tabName = "customFunctions" /\ NamesOfficeJsTypes
            THEN NULL
            ELSE UnpkgIndexUrl(ResolvedLibrary)

\* C13 amended: @types/<pkg> resolves to https://unpkg.com/<reference>/index.d.ts
\* on script; on customFunctions to null when the reference starts with
\* @types/office-js and to the same URL otherwise.
C13_ScopedTypesPrefix ==
    IsScopedTypes =>
        resolved.url =
            IF resolved.tabName = "customFunctions" /\ ResolvedLibrary[3] = "office-js"
            THEN NULL
            ELSE UnpkgIndexUrl(ResolvedLibrary)

\* C13 witness: on customFunctions a package whose name only starts with
\* office-js is suppressed, and on script @types/office-js is resolved.
C13_Witness ==
    /\ IsScopedTypes
    /\ \/ /\ resolved.tabName = "customFunctions"
          /\ ResolvedLibrary = <<"@types", "/", "office-js", "-preview">>
          /\ resolved.url = NULL
       \/ /\ resolved.tabName = "script"
          /\ ResolvedLibrary = <<"@types", "/", "office-js">>
          /\ resolved.url = UnpkgIndexUrl(ResolvedLibrary)

\* the resolved reference is neither shorthand
IsPlainReference ==
    /\ resolved.done
    /\ ResolvedLibrary = <<>> \/ Head(ResolvedLibrary) \notin {"@types", "dt~"}

\* the file of a reference that ends in .d.ts is office.d.ts
NamesOfficeDeclarations ==
    LET n == Len(ResolvedLibrary)
    IN  /\ n >= 2
        /\ Lower(ResolvedLibrary[n - 1]) = "office"
        /\ n >= 3 => ResolvedLibrary[n - 2] \in {"/", "https:", " "}

\* C14 as stated: a reference that is neither shorthand and ends in .d.ts resolves to
\* itself when it is an http(s) URL and to https://unpkg.com/<reference>
\* otherwise, or to null when its file is office.d.ts on customFunctions; any
\* other reference resolves to null and adds no url to the files of the pass.
C14_DeclarationFilesNamed ==
    IsPlainReference =>
        IF ResolvedLibrary # <<>> /\ Lower(ResolvedLibrary[Len(ResolvedLibrary)]) = ".d.ts"
        THEN resolved.url =
                 IF resolved.tabName = "customFunctions" /\ NamesOfficeDeclarations
                 THEN NULL
                 ELSE IF Lower(Head(ResolvedLibrary)) \in {"http:", "https:"}
                      THEN ResolvedLibrary
                      ELSE <<"https:", "//unpkg.com/">> \o ResolvedLibrary
        ELSE /\ resolved.url = NULL
             /\ resolved.urls = AdditionalLibraries(resolved.tabName)

\* C14 amended: a reference that is neither shorthand and ends in .d.ts
\* resolves to itself when it is an http(s) URL and to
\* https://unpkg.com/<reference> otherwise, or to null when its text ends in
\* office.d.ts on customFunctions; any other reference resolves to null and
\* adds no url to the files of the pass.
C14_DeclarationFilesSuffix ==
    IsPlainReference =>
        IF ResolvedLibrary # <<>> /\ Lower(ResolvedLibrary[Len(ResolvedLibrary)]) = ".d.ts"
        THEN resolved.url =
                 IF /\ resolved.tabName = "customFunctions"
                    /\ Len(ResolvedLibrary) >= 2
                    /\ Lower(ResolvedLibrary[Len(ResolvedLibrary) - 1]) = "office"
                 THEN NULL
                 ELSE IF Lower(Head(ResolvedLibrary)) \in {"http:", "https:"}
                      THEN ResolvedLibrary
                      ELSE <<"https:", "//unpkg.com/">> \o ResolvedLibrary
        ELSE /\ resolved.url = NULL
             /\ resolved.urls = AdditionalLibraries(resolved.tabName)

\* C14 witness: on customFunctions a file whose name only ends in office.d.ts
\* is suppressed.
C14_Witness ==
    /\ IsPlainReference
    /\ resolved.tabName = "customFunctions"
    /\ ResolvedLibrary = <<"back", "office", ".d.ts">>
    /\ resolved.url = NULL
    /\ resolved.urls = AdditionalLibraries("customFunctions")

\* C15: a call whose references resolve to one locator more than once issues
\* one add operation for it: no two add operations of one call are in flight
\* for one locator.
C15_OneAddPerLocator ==
    \A o1, o2 \in BagToSet(ops) :
        (o1.url = o2.url /\ o1.call = o2.call) => (o1 = o2 /\ CopiesIn(o1, ops) = 1)

\* C16: while every processed call was for one tab, the registrations held in
\* _current were all made with one language defaults object.
C16_OneLanguageTarget ==
    pass.sameTab => \A u, v \in DOMAIN _current :
        _current[u].disposable.target = _current[v].disposable.target

\* C17: the removal step of a processed call disposes once each registration
\* whose url is not desired and deletes its entry, keeps the registrations
\* whose url is desired as they are, and leaves no key of _current outside
\* the desired set.
C17_RemovalStep ==
    [][ last'.kind = "update" =>
            LET gone == DOMAIN _current \ pass'.desired
            IN  /\ DOMAIN _current' = DOMAIN _current \cap pass'.desired
                /\ \A u \in DOMAIN _current' : _current'[u] = _current[u]
                /\ \A t \in Targets :
                       extraLibs'[t] =
                           extraLibs[t] \ {u \in gone : _current[u].disposable.target = t}
                /\ pass'.disposes = Cardinality(gone)
                /\ DOMAIN _current' \subseteq pass'.desired ]_vars

\* C17 witness: a removal step has disposed a registration and kept another.
C17_Witness ==
    /\ last.kind = "update"
    /\ pass.disposes >= 1
    /\ DOMAIN _current # {}

\* C18: an entry of the cache is never removed and its content never replaced.
C18_CacheReadOnly ==
    [][ \A u \in cache : u \in cache' /\ cacheContent'[u] = cacheContent[u] ]_vars

\* C19: a call with a valid tabName is processed (its removals applied, its
\* add operations issued) whatever calls came before it.
C19_LaterValidCallProcessed ==
    last.tabName \in {"script", "customFunctions"} => last.kind = "update"

\* C20: the files of a call for 'script' contain auth-helpers.d.ts, those of a
\* call for 'customFunctions' contain custom-functions.d.ts and the versioned
\* office.d.ts, whatever the library is; null and blank never are among them.
C20_ImplicitLocators ==
    resolved.done =>
        LET files == Range(resolved.urls)
        IN  /\ resolved.tabName = "script" => AuthHelpersUrl \in files
            /\ resolved.tabName = "customFunctions" =>
                   {CustomFunctionsUrl, OfficeJsUrl} \subseteq files
            /\ NULL \notin files
            /\ \A u \in files : Trim(u) # <<>>

\* C20 witness: on customFunctions the versioned office.d.ts is among the
\* files, though _parse would suppress it and suppresses the library given.
C20_Witness ==
    /\ resolved.done
    /\ resolved.tabName = "customFunctions"
    /\ resolved.url = NULL
    /\ Trim(resolved.library) = <<"https:", "/", "office", ".d.ts">>
    /\ ParseLibrary(OfficeJsUrl, "customFunctions") = NULL
    /\ OfficeJsUrl \in Range(resolved.urls)

\* C21: the disposes of a pass come before the fetch and register calls of
\* its additions: when the handler has disposed, no add operation of the call
\* has asked for its file or registered it, and no later step of an add
\* operation disposes a registration.
C21_DisposeBeforeAdditions ==
    [][ /\ last'.kind = "update" =>
              /\ \A o \in BagToSet(ops) : o.call # calls'
              /\ \A o \in BagToSet(ops') : o.call = calls' => o.pc = "monaco"
        /\ last'.kind \in {"request", "cached", "fetched", "fetchError"} =>
              /\ DOMAIN _current \subseteq DOMAIN _current'
              /\ \A t \in Targets : extraLibs[t] \subseteq extraLibs'[t] ]_vars

\* C21 witness: a pass that disposed a registration has registered one of its
\* additions.
C21_Witness ==
    /\ last.kind \in {"fetched", "cached"}
    /\ last.op.call = calls
    /\ ~last.registerFailed
    /\ pass.disposes >= 1

\* C22: when the confirmation dialog of delete or deleteAll is answered, the
\* snippet (or every snippet) is removed from storage only if the choice is
\* 'Yes'; with 'No' the stored snippets stay as they are and the promise
\* rejects with ExpectedError.
C22_DeleteOnlyOnYes ==
    [][ (dialog # NoDialog /\ dialog' = NoDialog) =>
            IF done'.choice = "Yes"
            THEN /\ done'.error = "none"
                 /\ _snippetsContainer' = IF dialog.op = "delete"
                                          THEN _snippetsContainer \ {dialog.id}
                                          ELSE {}
            ELSE /\ done'.error = "ExpectedError"
                 /\ _snippetsContainer' = _snippetsContainer ]_vars

====
